---- MODULE Spec2Model ----
(***************************************************************************)
(* Model of scripts/summarize_rocm_smi.py: the summariser of rocm-smi log  *)
(* files.  A text is a sequence of one-character strings, so that the      *)
(* string tests of the program (startswith, strip, split, "x in line", the *)
(* three regular expressions) are computed character by character.  A      *)
(* float is an exact rational <<numerator, denominator>> in lowest terms   *)
(* with a positive denominator; binary rounding is not modelled.  Python's *)
(* None is the empty tuple.                                                *)
(***************************************************************************)
EXTENDS Integers, Sequences, FiniteSets, TLC

None == <<>>

----------------------------------------------------------------------------
(* Characters and the str methods the program uses.                        *)

Digits == <<"0","1","2","3","4","5","6","7","8","9">>
UpperCase == <<"A","B","C","D","E","F","G","H","I","J","K","L","M","N","O","P","Q","R","S","T","U","V","W","X","Y","Z">>
LowerCase == <<"a","b","c","d","e","f","g","h","i","j","k","l","m","n","o","p","q","r","s","t","u","v","w","x","y","z">>
\* the characters of the model's texts, in code-point order
CodePoints == <<"\t"," ","%","(",")","-",".","0","1","2","3","4","5","6","7","8","9",":","=","A","B","C","D","E","F","G","H","I","J","K","L","M","N","O","P","Q","R","S","T","U","V","W","X","Y","Z","[","]","_","a","b","c","d","e","f","g","h","i","j","k","l","m","n","o","p","q","r","s","t","u","v","w","x","y","z">>

Range(s) == {s[i] : i \in 1..Len(s)}
IndexIn(s, c) == CHOOSE i \in 1..Len(s) : s[i] = c

IsDigit(c) == c \in Range(Digits)
IsSpace(c) == c \in {" ", "\t"}
IsAlpha(c) == c \in Range(UpperCase) \cup Range(LowerCase)
IsWord(c) == IsAlpha(c) \/ IsDigit(c) \/ c = "_"
DigitVal(c) == IndexIn(Digits, c) - 1
Ord(c) == IndexIn(CodePoints, c)
ToLower(c) == IF c \in Range(UpperCase) THEN LowerCase[IndexIn(UpperCase, c)] ELSE c

Slice(s, a, b) == IF a > b THEN <<>> ELSE SubSeq(s, a, b)

\* str.lower()
Lower(s) == [i \in 1..Len(s) |-> ToLower(s[i])]

\* str.replace(c, "")
Remove(s, c) == SelectSeq(s, LAMBDA x : x # c)

\* first index >= i of s whose character is no whitespace (Len(s)+1 if none)
RECURSIVE SkipSpace(_, _)
SkipSpace(s, i) ==
    IF i <= Len(s) /\ IsSpace(s[i]) THEN SkipSpace(s, i + 1) ELSE i

\* last index <= i of s whose character is no whitespace (0 if none)
RECURSIVE SkipSpaceBack(_, _)
SkipSpaceBack(s, i) ==
    IF i >= 1 /\ IsSpace(s[i]) THEN SkipSpaceBack(s, i - 1) ELSE i

\* first index >= i of s whose character is no digit (Len(s)+1 if none)
RECURSIVE SkipDigits(_, _)
SkipDigits(s, i) ==
    IF i <= Len(s) /\ IsDigit(s[i]) THEN SkipDigits(s, i + 1) ELSE i

\* first index >= i of s whose character is no letter (Len(s)+1 if none)
RECURSIVE SkipAlpha(_, _)
SkipAlpha(s, i) ==
    IF i <= Len(s) /\ IsAlpha(s[i]) THEN SkipAlpha(s, i + 1) ELSE i

\* str.lstrip(), str.rstrip(), str.strip()
LStrip(s) == Slice(s, SkipSpace(s, 1), Len(s))
RStrip(s) == Slice(s, 1, SkipSpaceBack(s, Len(s)))
Strip(s) == RStrip(LStrip(s))

\* str.startswith(p), str.endswith(p)
StartsWith(s, p) == Len(s) >= Len(p) /\ SubSeq(s, 1, Len(p)) = p
EndsWith(s, p) == Len(s) >= Len(p) /\ SubSeq(s, Len(s) - Len(p) + 1, Len(s)) = p

\* p in s
Contains(s, p) ==
    \E i \in 1..(Len(s) - Len(p) + 1) : SubSeq(s, i, i + Len(p) - 1) = p

\* str.split(): the maximal runs of non-whitespace characters
RECURSIVE SplitFrom(_, _)
SplitFrom(s, i) ==
    LET a == SkipSpace(s, i)
        b == CHOOSE j \in a..(Len(s) + 1) :
                 /\ j = Len(s) + 1 \/ IsSpace(s[j])
                 /\ \A k \in a..(j - 1) : ~IsSpace(s[k])
    IN  IF a > Len(s) THEN <<>> ELSE <<SubSeq(s, a, b - 1)>> \o SplitFrom(s, b)
Split(s) == SplitFrom(s, 1)

\* first index >= i of s holding character c (0 if none)
RECURSIVE Find(_, _, _)
Find(s, c, i) ==
    IF i > Len(s) THEN 0 ELSE IF s[i] = c THEN i ELSE Find(s, c, i + 1)

\* list.index(x) as a 1-based index (0 if x is not in the list)
RECURSIVE IndexOf(_, _, _)
IndexOf(list, x, i) ==
    IF i > Len(list) THEN 0 ELSE IF list[i] = x THEN i ELSE IndexOf(list, x, i + 1)

\* a < b for two texts, by code points (the order sorted() uses on names)
RECURSIVE StrLess(_, _)
StrLess(a, b) ==
    IF b = <<>> THEN FALSE
    ELSE IF a = <<>> THEN TRUE
    ELSE IF a[1] # b[1] THEN Ord(a[1]) < Ord(b[1])
    ELSE StrLess(Tail(a), Tail(b))

----------------------------------------------------------------------------
(* Exact rationals standing for the program's floats.                      *)

Abs(x) == IF x < 0 THEN -x ELSE x

RECURSIVE GCD(_, _)
GCD(a, b) == IF b = 0 THEN a ELSE GCD(b, a % b)

Rat(n, d) ==
    LET g == GCD(Abs(n), Abs(d))
        s == IF d < 0 THEN -1 ELSE 1
    IN  <<(s * n) \div g, (s * d) \div g>>
RatInt(n) == <<n, 1>>
RatAdd(x, y) == Rat(x[1] * y[2] + y[1] * x[2], x[2] * y[2])
RatSub(x, y) == Rat(x[1] * y[2] - y[1] * x[2], x[2] * y[2])
RatMul(x, y) == Rat(x[1] * y[1], x[2] * y[2])
RatDiv(x, n) == Rat(x[1], x[2] * n)
RatLess(x, y) == x[1] * y[2] < y[1] * x[2]
RatLeq(x, y) == x[1] * y[2] <= y[1] * x[2]
\* math.floor, math.ceil
Floor(x) == x[1] \div x[2]
Ceil(x) == -((-x[1]) \div x[2])
IsRat(x) == /\ DOMAIN x = 1..2
            /\ x[1] \in Int /\ x[2] \in Nat \ {0}
            /\ GCD(Abs(x[1]), x[2]) = 1

\* the value of the digits s[a..b-1] read as a decimal integer
RECURSIVE DigitsVal(_, _, _)
DigitsVal(s, a, b) ==
    IF a >= b THEN 0 ELSE DigitsVal(s, a, b - 1) * 10 + DigitVal(s[b - 1])

RECURSIVE Pow10(_)
Pow10(k) == IF k = 0 THEN 1 ELSE 10 * Pow10(k - 1)

\* float() of the text matched by \d+(?:\.\d+)? at index p of s (s[p] is a
\* digit): [val |-> the number, end |-> the index after the match]
Decimal(s, p) ==
    LET e == SkipDigits(s, p)
        frac == e + 1 <= Len(s) /\ s[e] = "." /\ IsDigit(s[e + 1])
        f == IF frac THEN SkipDigits(s, e + 1) ELSE e
        ip == DigitsVal(s, p, e)
    IN  IF frac
        THEN [val |-> Rat(ip * Pow10(f - e - 1) + DigitsVal(s, e + 1, f),
                          Pow10(f - e - 1)),
              end |-> f]
        ELSE [val |-> RatInt(ip), end |-> e]

\* first index >= i of s whose character is a digit (0 if none)
RECURSIVE FindDigit(_, _)
FindDigit(s, i) ==
    IF i > Len(s) THEN 0 ELSE IF IsDigit(s[i]) THEN i ELSE FindDigit(s, i + 1)

----------------------------------------------------------------------------
(* The numeric parsers and the statistics.                                 *)

\* parse_number: float() of the leftmost match of NUM_RE = -?\d+(?:\.\d+)?,
\* None when the token holds no digit.  The leftmost match starts at the
\* first digit, or at a "-" directly before it.
parse_number(token) ==
    LET p == FindDigit(token, 1)
        v == Decimal(token, p).val
    IN  IF p = 0 THEN None
        ELSE IF p > 1 /\ token[p - 1] = "-" THEN Rat(-v[1], v[2])
        ELSE v

\* parse_value_with_units: the leftmost (\d+(?:\.\d+)?)\s*([A-Za-z]+)?, the
\* unit lower-cased; GHz scale to MHz
parse_value_with_units(text) ==
    LET p == FindDigit(text, 1)
        m == Decimal(text, p)
        u == SkipSpace(text, m.end)
        unit == Lower(Slice(text, u, SkipAlpha(text, u) - 1))
    IN  IF p = 0 THEN None
        ELSE IF unit \in {<<"m","h","z">>, <<"m">>} THEN m.val
        ELSE IF unit \in {<<"g","h","z">>, <<"g">>} THEN RatMul(m.val, RatInt(1000))
        ELSE m.val

\* int(text) of the segmenter: optional surrounding whitespace, an optional
\* sign, digits in groups separated by single underscores; None stands for
\* the ValueError
RECURSIVE IsIntBody(_, _)
IsIntBody(s, i) ==
    LET e == SkipDigits(s, i)
    IN  /\ e > i
        /\ \/ e = Len(s) + 1
           \/ s[e] = "_" /\ IsIntBody(s, e + 1)
ParseInt(text) ==
    LET s == Strip(text)
        signed == s # <<>> /\ s[1] \in {"+", "-"}
        body == IF signed THEN Tail(s) ELSE s
        mag == DigitsVal(Remove(body, "_"), 1, Len(Remove(body, "_")) + 1)
    IN  IF ~IsIntBody(body, 1) THEN None
        ELSE IF signed /\ s[1] = "-" THEN <<-mag>>
        ELSE <<mag>>

\* sorted(values): insertion into an ascending list, equal values kept
RECURSIVE SortedInsert(_, _)
SortedInsert(sorted, v) ==
    IF sorted = <<>> THEN <<v>>
    ELSE IF RatLess(v, Head(sorted)) THEN <<v>> \o sorted
    ELSE <<Head(sorted)>> \o SortedInsert(Tail(sorted), v)
\* the values left in the order they came
Unsorted(values) == values
RECURSIVE Sorted(_)
Sorted(values) ==
    IF values = <<>> THEN <<>>
    ELSE SortedInsert(Sorted(SubSeq(values, 1, Len(values) - 1)), values[Len(values)])

\* percentile(values, p): values[i] of the code is sorted[i + 1] here
percentile(values, p) ==
    LET sorted == Sorted(values)
        k == Rat((Len(values) - 1) * p, 100)
        f == Floor(k)
        c == Ceil(k)
        d0 == RatMul(sorted[f + 1], RatSub(RatInt(c), k))
        d1 == RatMul(sorted[c + 1], RatSub(k, RatInt(f)))
    IN  IF values = <<>> THEN None
        ELSE IF Len(values) = 1 THEN sorted[1]
        ELSE IF f = c THEN sorted[f + 1]
        ELSE RatAdd(d0, d1)

\* statistics.mean
RECURSIVE Sum(_)
Sum(values) ==
    IF values = <<>> THEN RatInt(0) ELSE RatAdd(Head(values), Sum(Tail(values)))
mean(values) == RatDiv(Sum(values), Len(values))

\* max(values): the first of the largest
RECURSIVE MaxFrom(_, _)
MaxFrom(best, rest) ==
    IF rest = <<>> THEN best
    ELSE MaxFrom(IF RatLess(best, Head(rest)) THEN Head(rest) ELSE best, Tail(rest))
max(values) == MaxFrom(Head(values), Tail(values))

\* summarize_metric: None, or the one-element tuple holding the record
summarize_metric(values) ==
    IF values = <<>> THEN None
    ELSE <<[avg |-> mean(values), p95 |-> percentile(values, 95), max |-> max(values)]>>

----------------------------------------------------------------------------
(* The metric mappings: gpu id -> metric key -> list of values (the        *)
(* defaultdict(lambda: defaultdict(list)) of the program).                 *)

EmptyMetrics == <<>>

Keys(metrics, gpu_id) == IF gpu_id \in DOMAIN metrics THEN DOMAIN metrics[gpu_id] ELSE {}

Get(metrics, gpu_id, key) ==
    IF key \in Keys(metrics, gpu_id) THEN metrics[gpu_id][key] ELSE <<>>

\* metrics[gpu_id][key].extend(values)
ExtendAt(metrics, gpu_id, key, values) ==
    [g \in DOMAIN metrics \cup {gpu_id} |->
        IF g = gpu_id
        THEN [k \in Keys(metrics, g) \cup {key} |->
                 IF k = key THEN Get(metrics, g, k) \o values ELSE metrics[g][k]]
        ELSE metrics[g]]

\* the same with the new values put before the old ones
ExtendAllBefore(metrics, other) ==
    [g \in DOMAIN metrics \cup DOMAIN other |->
        [k \in Keys(metrics, g) \cup Keys(other, g) |->
            Get(other, g, k) \o Get(metrics, g, k)]]

\* for gpu_id, gpu_metrics in other.items():
\*     for key, values in gpu_metrics.items(): metrics[gpu_id][key].extend(values)
ExtendAll(metrics, other) ==
    [g \in DOMAIN metrics \cup DOMAIN other |->
        [k \in Keys(metrics, g) \cup Keys(other, g) |->
            Get(metrics, g, k) \o Get(other, g, k)]]

\* val = ...; if val is not None: metrics[gpu_id][key].append(val)
AppendParsedAlways(metrics, gpu_id, key, val) == ExtendAt(metrics, gpu_id, key, <<val>>)
AppendParsed(metrics, gpu_id, key, val) ==
    IF val # None THEN ExtendAt(metrics, gpu_id, key, <<val>>) ELSE metrics

----------------------------------------------------------------------------
(* The table extractor.                                                    *)

TsPrefix == <<"t","s","=">>
Separator == <<"-","-","-">>

\* normalize_header: replace("%", "%") changes nothing
normalize_header(token) == Remove(Remove(Lower(Strip(token)), "("), ")")

\* GPU_LINE_RE.match(line): ^\s*\d+\b
GpuLineMatch(line) ==
    LET a == SkipSpace(line, 1)
        e == SkipDigits(line, a)
    IN  e > a /\ (e > Len(line) \/ ~IsWord(line[e]))

\* the test that makes a line a table header
IsHeaderLine(line) ==
    Contains(line, <<"G","P","U">>) /\ Contains(line, <<"%">>) /\ ~Contains(line, TsPrefix)

\* the inner loop of extract_tables from index j: the index it stops at and
\* the data lines it collected
RECURSIVE DataLines(_, _, _)
DataLines(lines, j, data_lines) ==
    IF j > Len(lines) THEN [j |-> j, data_lines |-> data_lines]
    ELSE IF Strip(lines[j]) = Separator \/ StartsWith(lines[j], TsPrefix)
         THEN [j |-> j, data_lines |-> data_lines]
    ELSE DataLines(lines, j + 1,
                   IF GpuLineMatch(lines[j])
                   THEN Append(data_lines, RStrip(lines[j]))
                   ELSE data_lines)

\* extract_tables from index i: the (header_tokens, data_lines) it yields
RECURSIVE TablesFrom(_, _)
TablesFrom(lines, i) ==
    IF i > Len(lines) THEN <<>>
    ELSE IF IsHeaderLine(lines[i])
         THEN LET r == DataLines(lines, i + 1, <<>>)
              IN  (IF r.data_lines # <<>>
                   THEN <<[header_tokens |-> Split(Strip(lines[i])),
                           data_lines |-> r.data_lines]>>
                   ELSE <<>>) \o TablesFrom(lines, r.j)
    ELSE TablesFrom(lines, i + 1)
extract_tables(lines) == TablesFrom(lines, 1)

\* find_col(*names) as a 1-based index, 0 for None
RECURSIVE FindColFrom(_, _, _)
FindColFrom(header, names, i) ==
    IF i > Len(names) THEN 0
    ELSE IF names[i] \in Range(header) THEN IndexOf(header, names[i], 1)
    ELSE FindColFrom(header, names, i + 1)
\* the same with the aliases tried from the last to the first
RECURSIVE FindColLast(_, _, _)
FindColLast(header, names, i) ==
    IF i < 1 THEN 0
    ELSE IF names[i] \in Range(header) THEN IndexOf(header, names[i], 1)
    ELSE FindColLast(header, names, i - 1)
find_col_reversed(header, names) == FindColLast(header, names, Len(names))
find_col(header, names) == FindColFrom(header, names, 1)

GpuAliases == <<<<"g","p","u">>>>
\* the logical columns in the order parse_sample grabs them, each with its
\* alias list and its canonical key
TableColumns ==
    << [names |-> <<<<"g","p","u","%">>, <<"g","p","u","%">>, <<"g","p","u","u","s","e","%">>, <<"g","p","u","u","s","e">>>>,
        key |-> "gpu_util_pct"],
       [names |-> <<<<"v","r","a","m","%">>, <<"m","e","m","%">>, <<"m","e","m","u","s","e","%">>>>, key |-> "vram_util_pct"],
       [names |-> <<<<"t","e","m","p">>, <<"t","e","m","p","e","r","a","t","u","r","e">>>>, key |-> "temp_c"],
       [names |-> <<<<"a","v","g","p","w","r">>, <<"p","o","w","e","r">>, <<"p","w","r">>, <<"a","v","g","p","o","w","e","r">>>>,
        key |-> "power_w"],
       [names |-> <<<<"s","c","l","k">>>>, key |-> "sclk_mhz"],
       [names |-> <<<<"m","c","l","k">>>>, key |-> "mclk_mhz"] >>

\* grab(col)
grab(tokens, col) ==
    IF col = 0 \/ col > Len(tokens) THEN None ELSE parse_number(tokens[col])

\* the six grabs of one data row, from the i-th on
RECURSIVE GrabColumns(_, _, _, _, _)
GrabColumns(metrics, header, gpu_id, tokens, i) ==
    IF i > Len(TableColumns) THEN metrics
    ELSE GrabColumns(AppendParsed(metrics, gpu_id, TableColumns[i].key,
                                  grab(tokens, find_col(header, TableColumns[i].names))),
                     header, gpu_id, tokens, i + 1)

\* the body of "for line in data_lines"
TableRow(metrics, header, line) ==
    LET tokens == Split(line)
        col_gpu == find_col(header, GpuAliases)
    IN  IF col_gpu = 0 \/ col_gpu > Len(tokens) THEN metrics
        ELSE GrabColumns(metrics, header, tokens[col_gpu], tokens, 1)

RECURSIVE TableRows(_, _, _, _)
TableRows(metrics, header, data_lines, i) ==
    IF i > Len(data_lines) THEN metrics
    ELSE TableRows(TableRow(metrics, header, data_lines[i]), header, data_lines, i + 1)

\* the body of "for header_tokens, data_lines in extract_tables(lines)"
RECURSIVE TableMetrics(_, _, _)
TableMetrics(metrics, tables, i) ==
    IF i > Len(tables) THEN metrics
    ELSE TableMetrics(
             TableRows(metrics,
                       [t \in 1..Len(tables[i].header_tokens) |->
                           normalize_header(tables[i].header_tokens[t])],
                       tables[i].data_lines, 1),
             tables, i + 1)

----------------------------------------------------------------------------
(* The key/value extractor.                                                *)

\* the same with the generic test tried first
temperature_key_generic_first(label) ==
    LET label_lower == Lower(label)
    IN  IF Contains(label_lower, <<"t","e","m","p","e","r","a","t","u","r","e">>) THEN <<"temp_c">>
        ELSE IF Contains(label_lower, <<"s","e","n","s","o","r"," ","e","d","g","e">>) THEN <<"temp_edge_c">>
        ELSE IF Contains(label_lower, <<"s","e","n","s","o","r"," ","j","u","n","c","t","i","o","n">>) THEN <<"temp_junction_c">>
        ELSE IF Contains(label_lower, <<"s","e","n","s","o","r"," ","m","e","m","o","r","y">>) THEN <<"temp_memory_c">>
        ELSE IF Contains(label_lower, <<"s","e","n","s","o","r"," ","h","b","m"," ","0">>) THEN <<"temp_hbm0_c">>
        ELSE IF Contains(label_lower, <<"s","e","n","s","o","r"," ","h","b","m"," ","1">>) THEN <<"temp_hbm1_c">>
        ELSE IF Contains(label_lower, <<"s","e","n","s","o","r"," ","h","b","m"," ","2">>) THEN <<"temp_hbm2_c">>
        ELSE IF Contains(label_lower, <<"s","e","n","s","o","r"," ","h","b","m"," ","3">>) THEN <<"temp_hbm3_c">>
        ELSE None

\* temperature_key: None, or the one-element tuple holding the key
temperature_key(label) ==
    LET label_lower == Lower(label)
    IN  IF Contains(label_lower, <<"s","e","n","s","o","r"," ","e","d","g","e">>) THEN <<"temp_edge_c">>
        ELSE IF Contains(label_lower, <<"s","e","n","s","o","r"," ","j","u","n","c","t","i","o","n">>) THEN <<"temp_junction_c">>
        ELSE IF Contains(label_lower, <<"s","e","n","s","o","r"," ","m","e","m","o","r","y">>) THEN <<"temp_memory_c">>
        ELSE IF Contains(label_lower, <<"s","e","n","s","o","r"," ","h","b","m"," ","0">>) THEN <<"temp_hbm0_c">>
        ELSE IF Contains(label_lower, <<"s","e","n","s","o","r"," ","h","b","m"," ","1">>) THEN <<"temp_hbm1_c">>
        ELSE IF Contains(label_lower, <<"s","e","n","s","o","r"," ","h","b","m"," ","2">>) THEN <<"temp_hbm2_c">>
        ELSE IF Contains(label_lower, <<"s","e","n","s","o","r"," ","h","b","m"," ","3">>) THEN <<"temp_hbm3_c">>
        ELSE IF Contains(label_lower, <<"t","e","m","p","e","r","a","t","u","r","e">>) THEN <<"temp_c">>
        ELSE None

\* KV_LINE_RE.match(s) for a stripped s:
\*   ^GPU\[(?P<gpu>\d+)\]\s*:\s*(?P<label>.+?)\s*:\s*(?P<value>.+)$
\* None, or the one-element tuple holding the three groups.  The label is
\* the shortest text up to a colon that still has text after it; when there
\* is none and the text after the first colon's whitespace starts with a
\* colon, the match backtracks to a label of one whitespace character.
KVMatch(s) ==
    LET d == SkipDigits(s, 5)
        c1 == SkipSpace(s, d + 1)
        a == SkipSpace(s, c1 + 1)
        q == Find(s, ":", a + 1)
    IN  IF ~(/\ StartsWith(s, <<"G","P","U","[">>)
             /\ d > 5 /\ d <= Len(s) /\ s[d] = "]"
             /\ c1 <= Len(s) /\ s[c1] = ":")
        THEN None
        ELSE IF q # 0 /\ q < Len(s)
        THEN <<[gpu |-> SubSeq(s, 5, d - 1),
                label |-> SubSeq(s, a, SkipSpaceBack(s, q - 1)),
                value |-> SubSeq(s, SkipSpace(s, q + 1), Len(s))]>>
        ELSE IF a > c1 + 1 /\ a < Len(s) /\ s[a] = ":"
        THEN <<[gpu |-> SubSeq(s, 5, d - 1),
                label |-> <<s[a - 1]>>,
                value |-> SubSeq(s, SkipSpace(s, a + 1), Len(s))]>>
        ELSE None

\* the body of "for line in lines" of parse_kv_lines
KVLine(metrics, line) ==
    LET match == KVMatch(Strip(line))
        gpu_id == match[1].gpu
        label == Strip(match[1].label)
        value == Strip(match[1].value)
        temp_key == temperature_key(label)
    IN  IF match = None THEN metrics
        ELSE IF label = <<"G","P","U"," ","u","s","e"," ","(","%",")">>
        THEN AppendParsed(metrics, gpu_id, "gpu_util_pct", parse_number(value))
        ELSE IF label = <<"G","P","U"," ","M","e","m","o","r","y"," ","A","l","l","o","c","a","t","e","d"," ","(","V","R","A","M","%",")">>
        THEN AppendParsed(metrics, gpu_id, "vram_util_pct", parse_number(value))
        ELSE IF label = <<"G","P","U"," ","M","e","m","o","r","y"," ","R","e","a","d","/","W","r","i","t","e"," ","A","c","t","i","v","i","t","y"," ","(","%",")">>
        THEN AppendParsed(metrics, gpu_id, "mem_rw_activity_pct", parse_number(value))
        ELSE IF label = <<"A","v","e","r","a","g","e"," ","G","r","a","p","h","i","c","s"," ","P","a","c","k","a","g","e"," ","P","o","w","e","r"," ","(","W",")">>
        THEN AppendParsed(metrics, gpu_id, "power_w", parse_number(value))
        ELSE IF StartsWith(label, <<"f","c","l","k"," ","c","l","o","c","k"," ","l","e","v","e","l">>)
        THEN AppendParsed(metrics, gpu_id, "fclk_mhz", parse_value_with_units(value))
        ELSE IF StartsWith(label, <<"m","c","l","k"," ","c","l","o","c","k"," ","l","e","v","e","l">>)
        THEN AppendParsed(metrics, gpu_id, "mclk_mhz", parse_value_with_units(value))
        ELSE IF StartsWith(label, <<"s","c","l","k"," ","c","l","o","c","k"," ","l","e","v","e","l">>)
        THEN AppendParsed(metrics, gpu_id, "sclk_mhz", parse_value_with_units(value))
        ELSE IF StartsWith(label, <<"s","o","c","c","l","k"," ","c","l","o","c","k"," ","l","e","v","e","l">>)
        THEN AppendParsed(metrics, gpu_id, "socclk_mhz", parse_value_with_units(value))
        ELSE IF temp_key # None
        THEN AppendParsed(metrics, gpu_id, temp_key[1], parse_number(value))
        ELSE metrics

RECURSIVE KVLines(_, _, _)
KVLines(metrics, lines, i) ==
    IF i > Len(lines) THEN metrics
    ELSE KVLines(KVLine(metrics, lines[i]), lines, i + 1)
parse_kv_lines(lines) == KVLines(EmptyMetrics, lines, 1)

\* parse_sample: the tables' values, then the key/value lines' values
parse_sample(lines) ==
    ExtendAll(TableMetrics(EmptyMetrics, extract_tables(lines), 1), parse_kv_lines(lines))

----------------------------------------------------------------------------
(* summarize_logs as a state machine: one step per loop iteration.         *)

VARIABLES
    files,          \* the directory: file name -> the file's lines
    pc,             \* "list", "files", "scan", "parse", "done"
    names,          \* the sorted names the outer loop has still to visit
    name,           \* the name the outer loop is at
    lines,          \* the lines of the file being read
    pos,            \* the index in lines the segmenter is at
    timestamps,     \* the parsed timestamps of the file so far
    sample_blocks,  \* the closed blocks of the file so far
    current,        \* the block being accumulated
    node_stats,     \* the file's entry under construction
    block,          \* the index in sample_blocks the aggregator is at
    combined,       \* the file-level accumulator
    summary,        \* the report: nodes and warnings
    values,         \* the argument of the statistics (the functions taken alone)
    result          \* their result

vars == <<files, pc, names, name, lines, pos, timestamps, sample_blocks, current,
          node_stats, block, combined, summary, values, result>>

LogExt == <<".","l","o","g">>
WarningPrefix == <<"N","o"," ","p","a","r","s","e","a","b","l","e"," ","m","e","t","r","i","c","s"," ","i","n"," ">>

\* sorted(names): the least name first
RECURSIVE SortedNames(_)
SortedNames(set) ==
    IF set = {} THEN <<>>
    ELSE LET least == CHOOSE n \in set : \A m \in set \ {n} : StrLess(n, m)
         IN  <<least>> \o SortedNames(set \ {least})

\* last index of s holding character c (0 if none)
RECURSIVE RFind(_, _, _)
RFind(s, c, i) ==
    IF i < 1 THEN 0 ELSE IF s[i] = c THEN i ELSE RFind(s, c, i - 1)

\* os.path.splitext(name)[0]: the name up to its last dot, unless only dots
\* come before that dot
splitext_root(n) ==
    LET dot == RFind(n, ".", Len(n))
    IN  IF dot > 1 /\ \E i \in 1..(dot - 1) : n[i] # "."
        THEN SubSeq(n, 1, dot - 1)
        ELSE n

\* line.split("=", 1)[1] of a line that holds an "="
AfterEquals(line) == Slice(line, Find(line, "=", 1) + 1, Len(line))

\* the first timestamp of the file
first_ts(ts) == ts[1]
\* min(timestamps), max(timestamps)
RECURSIVE min_ts(_)
min_ts(ts) ==
    IF Len(ts) = 1 THEN ts[1]
    ELSE LET m == min_ts(Tail(ts)) IN IF m < ts[1] THEN m ELSE ts[1]
RECURSIVE max_ts(_)
max_ts(ts) ==
    IF Len(ts) = 1 THEN ts[1]
    ELSE LET m == max_ts(Tail(ts)) IN IF m > ts[1] THEN m ELSE ts[1]

\* if current: sample_blocks.append(current)
FlushAlways(blocks, cur) == Append(blocks, cur)
FlushCurrent(blocks, cur) == IF cur # <<>> THEN Append(blocks, cur) ELSE blocks

\* current = []; ...; current.append(line): the block a marker line starts
StartBlockEmpty(line) == <<>>
StartBlock(line) == <<line>>

\* "not combined", the test that raises the warning
NoBlocks(metrics) == sample_blocks = <<>>
NoMetrics(metrics) == metrics = EmptyMetrics

\* {key: summarize_metric(values) for key, values in gpu_metrics.items()} for
\* every gpu of combined
SummarizeGpus(metrics) ==
    [g \in DOMAIN metrics |-> [k \in DOMAIN metrics[g] |-> summarize_metric(metrics[g][k])]]

EmptyStats == [log_file |-> <<>>, samples |-> 0, start_ts |-> None, end_ts |-> None,
               gpus |-> <<>>]

InitWith(dirs) ==
    /\ files \in dirs
    /\ pc = "list"
    /\ names = <<>>
    /\ name = <<>>
    /\ lines = <<>>
    /\ pos = 1
    /\ timestamps = <<>>
    /\ sample_blocks = <<>>
    /\ current = <<>>
    /\ node_stats = EmptyStats
    /\ block = 1
    /\ combined = EmptyMetrics
    /\ summary = [nodes |-> <<>>, warnings |-> <<>>]
    /\ values = <<>>
    /\ result = None

\* sorted(os.listdir(log_dir))
ListDir ==
    /\ pc = "list"
    /\ names' = SortedNames(DOMAIN files)
    /\ pc' = "files"
    /\ UNCHANGED <<files, name, lines, pos, timestamps, sample_blocks, current,
                   node_stats, block, combined, summary, values, result>>

\* the head of the outer loop: skip a name without the extension, else read
\* the file and start the segmenter
NextFile ==
    /\ pc = "files"
    /\ names # <<>>
    /\ name' = Head(names)
    /\ names' = Tail(names)
    /\ IF ~EndsWith(Head(names), LogExt)
       THEN UNCHANGED <<pc, lines, pos, timestamps, sample_blocks, current>>
       ELSE /\ lines' = files[Head(names)]
            /\ pos' = 1
            /\ timestamps' = <<>>
            /\ sample_blocks' = <<>>
            /\ current' = <<>>
            /\ pc' = "scan"
    /\ UNCHANGED <<files, node_stats, block, combined, summary, values, result>>

\* the body of "for line in lines"
ScanLine ==
    /\ pc = "scan"
    /\ pos <= Len(lines)
    /\ LET line == lines[pos]
           ts == ParseInt(AfterEquals(line))
       IN  IF StartsWith(line, TsPrefix)
           THEN /\ sample_blocks' = FlushCurrent(sample_blocks, current)
                /\ timestamps' = IF ts # None THEN Append(timestamps, ts[1])
                                 ELSE timestamps
                /\ current' = StartBlock(line)
           ELSE IF Strip(line) = Separator
           THEN /\ sample_blocks' = FlushCurrent(sample_blocks, current)
                /\ current' = <<>>
                /\ UNCHANGED timestamps
           ELSE /\ current' = Append(current, line)
                /\ UNCHANGED <<sample_blocks, timestamps>>
    /\ pos' = pos + 1
    /\ UNCHANGED <<files, pc, names, name, lines, node_stats, block, combined,
                   summary, values, result>>

\* after the loop: the trailing block, the file's entry, the empty accumulator
EndScan ==
    /\ pc = "scan"
    /\ pos > Len(lines)
    /\ sample_blocks' = FlushCurrent(sample_blocks, current)
    /\ node_stats' = [log_file |-> name,
                      samples |-> Len(sample_blocks'),
                      start_ts |-> IF timestamps # <<>> THEN <<min_ts(timestamps)>>
                                   ELSE None,
                      end_ts |-> IF timestamps # <<>> THEN <<max_ts(timestamps)>>
                                 ELSE None,
                      gpus |-> <<>>]
    /\ combined' = EmptyMetrics
    /\ block' = 1
    /\ pc' = "parse"
    /\ UNCHANGED <<files, names, name, lines, pos, timestamps, current, summary,
                   values, result>>

\* the body of "for block in sample_blocks"
ParseBlock ==
    /\ pc = "parse"
    /\ block <= Len(sample_blocks)
    /\ combined' = ExtendAll(combined, parse_sample(sample_blocks[block]))
    /\ block' = block + 1
    /\ UNCHANGED <<files, pc, names, name, lines, pos, timestamps, sample_blocks,
                   current, node_stats, summary, values, result>>

\* the warning, the statistics of every gpu and the node's entry
Report ==
    /\ pc = "parse"
    /\ block > Len(sample_blocks)
    /\ node_stats' = [node_stats EXCEPT !.gpus = SummarizeGpus(combined)]
    /\ summary' =
           [nodes |-> [n \in DOMAIN summary.nodes \cup {splitext_root(name)} |->
                          IF n = splitext_root(name) THEN node_stats'
                          ELSE summary.nodes[n]],
            warnings |-> IF NoMetrics(combined)
                         THEN Append(summary.warnings, WarningPrefix \o name)
                         ELSE summary.warnings]
    /\ pc' = "files"
    /\ UNCHANGED <<files, names, name, lines, pos, timestamps, sample_blocks,
                   current, block, combined, values, result>>

\* return summary
Return ==
    /\ pc = "files"
    /\ names = <<>>
    /\ pc' = "done"
    /\ UNCHANGED <<files, names, name, lines, pos, timestamps, sample_blocks,
                   current, node_stats, block, combined, summary, values, result>>

Next == ListDir \/ NextFile \/ ScanLine \/ EndScan \/ ParseBlock \/ Report \/ Return

----------------------------------------------------------------------------
(* The inputs of the checks and the specifications.                        *)

MaxLines == 4
MaxSegLines == 4
MaxFiles == 2
MaxRows == 2
MaxKVLines == 2
MaxBlocks == 3
MaxValues == 4

SeqsUpTo(pool, n) == UNION {[1..k -> pool] : k \in 0..n}

NodeLog == <<"a",".","l","o","g">>
\* the directories holding the one file a.log, its lines one of contents
OneFile(contents) == {[n \in {NodeLog} |-> c] : c \in contents}

\* lines of every kind the extractors tell apart
TsLine == <<"t","s","=","1","0","0">>
HeaderLine == <<"G","P","U"," "," ","G","P","U","%"," "," ","T","E","M","P">>
RowLine == <<"0"," "," ","8","0"," "," ","N","/","A">>
UseLine45 == <<"G","P","U","[","0","]",":"," ","G","P","U"," ","u","s","e"," ","(","%",")",":"," ","4","5">>
UseLine55 == <<"G","P","U","[","0","]",":"," ","G","P","U"," ","u","s","e"," ","(","%",")",":"," ","5","5",".","5">>
TempLineNA == <<"G","P","U","[","0","]",":"," ","T","e","m","p","e","r","a","t","u","r","e",":"," ","N","/","A">>
MixPool == {TsLine, Separator, HeaderLine, RowLine, UseLine45, UseLine55, TempLineNA}

Init == InitWith(OneFile(SeqsUpTo(MixPool, MaxLines)))
Spec == Init /\ [][Next]_vars

\* lines of every kind the segmenter tells apart: markers in and out of
\* order, a marker with no integer, separators with and without blanks
SegStamps == {[t |-> 100, line |-> <<"t","s","=","1","0","0">>], [t |-> 50, line |-> <<"t","s","="," ","5","0">>]}
BadStamp == <<"t","s","=","1","x">>
SegPool ==
    {s.line : s \in SegStamps} \cup {BadStamp, <<"-","-","-">>, <<" ","-","-","-"," ">>, <<"x">>, <<" ","t","s","=","7">>}

InitSeg == InitWith(OneFile(SeqsUpTo(SegPool, MaxSegLines)))
SpecSeg == InitSeg /\ [][Next]_vars

\* directories of up to MaxFiles entries, each with one of a few contents
DirNames == {<<"a",".","l","o","g">>, <<"b",".","l","o","g">>, <<"n",".","t","x","t">>}
DirContents ==
    { <<>>,
      <<<<"x">>>>,
      <<UseLine45>>,
      <<HeaderLine, RowLine>>,
      <<TsLine, TempLineNA>> }
Dirs ==
    UNION {[ns -> DirContents] : ns \in {s \in SUBSET DirNames : Cardinality(s) <= MaxFiles}}

InitDir == InitWith(Dirs)
SpecDir == InitDir /\ [][Next]_vars

\* one table: a header and up to MaxRows lines after it
TableHeaders ==
    { <<"G","P","U"," "," ","G","P","U","%"," "," ","V","R","A","M","%"," "," ","T","E","M","P"," "," ","A","v","g","P","w","r"," "," ","S","C","L","K"," "," ","M","C","L","K">>,
      <<"G","P","U"," "," ","T","e","m","p"," "," ","p","w","r"," "," ","P","o","w","e","r"," "," ","G","P","U","u","s","e","%">>,
      <<"M","e","m","%"," "," ","G","P","U"," "," ","(","M","C","L","K",")"," "," ","T","e","m","p","e","r","a","t","u","r","e">>,
      <<"G","P","U","%"," "," ","V","R","A","M","%">> }
TableLines ==
    { <<"0"," "," ","8","0"," "," ","6","0"," "," ","7","0"," "," ","1","5","0"," "," ","1","5","0","0"," "," ","9","0","0">>,
      <<"1"," "," ","N","/","A"," "," ","5","5",".","5">>,
      <<"0"," "," ","4","0"," "," ","-","5"," "," ","x","9"," "," ","7">>,
      <<"7">>,
      <<"n","/","a"," "," ","1"," "," ","2">> }

InitTable ==
    InitWith(OneFile({<<h>> \o rows : h \in TableHeaders, rows \in SeqsUpTo(TableLines, MaxRows)}))
SpecTable == InitTable /\ [][Next]_vars

\* key/value lines, each with the groups and the number it is written from
KVPool ==
    { [gpu |-> <<"0">>, label |-> <<"T","e","m","p","e","r","a","t","u","r","e"," ","S","e","n","s","o","r"," ","E","d","g","e">>, text |-> <<"4","1">>,
       val |-> <<41, 1>>],
      [gpu |-> <<"0">>, label |-> <<"T","e","m","p","e","r","a","t","u","r","e"," ","S","e","n","s","o","r"," ","J","u","n","c","t","i","o","n">>, text |-> <<"5","2",".","5">>,
       val |-> <<105, 2>>],
      [gpu |-> <<"0">>, label |-> <<"T","e","m","p","e","r","a","t","u","r","e">>, text |-> <<"3","3">>, val |-> <<33, 1>>],
      [gpu |-> <<"1">>, label |-> <<"T","e","m","p","e","r","a","t","u","r","e"," ","(","S","e","n","s","o","r"," ","m","e","m","o","r","y",")"," ","(","C",")">>, text |-> <<"4","7",".","0">>,
       val |-> <<47, 1>>],
      [gpu |-> <<"1">>, label |-> <<"T","e","m","p","e","r","a","t","u","r","e"," ","(","S","e","n","s","o","r"," ","H","B","M"," ","2",")"," ","(","C",")">>, text |-> <<"3","8">>,
       val |-> <<38, 1>>],
      [gpu |-> <<"0">>, label |-> <<"S","e","n","s","o","r"," ","J","u","n","c","t","i","o","n"," ","b","y"," ","S","e","n","s","o","r"," ","E","d","g","e">>, text |-> <<"9">>,
       val |-> <<9, 1>>],
      [gpu |-> <<"0">>, label |-> <<"F","a","n"," ","s","p","e","e","d"," ","(","%",")">>, text |-> <<"3","0">>, val |-> <<30, 1>>],
      [gpu |-> <<"0">>, label |-> <<"T","e","m","p","e","r","a","t","u","r","e"," ","S","e","n","s","o","r"," ","E","d","g","e">>, text |-> <<"N","/","A">>,
       val |-> None],
      [gpu |-> <<"0">>, label |-> <<"m","c","l","k"," ","c","l","o","c","k"," ","l","e","v","e","l"," ","s","e","n","s","o","r"," ","e","d","g","e">>, text |-> <<"9","0","0","M","h","z">>,
       val |-> <<900, 1>>] }
\* the line GPU[<gpu>]: <label>: <text>
KVText(kv) == <<"G","P","U","[">> \o kv.gpu \o <<"]",":"," ">> \o kv.label \o <<":"," ">> \o kv.text

InitKV ==
    InitWith(OneFile({[i \in 1..Len(kvs) |-> KVText(kvs[i])] :
                         kvs \in SeqsUpTo(KVPool, MaxKVLines)}))
SpecKV == InitKV /\ [][Next]_vars

\* blocks of a marker ts=<t> and a line GPU[0]: GPU use (%): <v>
Stamps ==
    { [t |-> 100, line |-> <<"t","s","=","1","0","0">>],
      [t |-> 200, line |-> <<"t","s","=","2","0","0">>],
      [t |-> 150, line |-> <<"t","s","=","1","5","0">>] }
Uses ==
    { [v |-> 45, line |-> <<"G","P","U","[","0","]",":"," ","G","P","U"," ","u","s","e"," ","(","%",")",":"," ","4","5">>],
      [v |-> 55, line |-> <<"G","P","U","[","0","]",":"," ","G","P","U"," ","u","s","e"," ","(","%",")",":"," ","5","5">>],
      [v |-> 50, line |-> <<"G","P","U","[","0","]",":"," ","G","P","U"," ","u","s","e"," ","(","%",")",":"," ","5","0">>] }
\* the lines of the blocks bs, a sequence of <<stamp, use>> pairs
RECURSIVE BlockLines(_)
BlockLines(bs) ==
    IF bs = <<>> THEN <<>>
    ELSE <<Head(bs)[1].line, Head(bs)[2].line>> \o BlockLines(Tail(bs))

InitE2E ==
    InitWith(OneFile({BlockLines(bs) : bs \in SeqsUpTo(Stamps \X Uses, MaxBlocks)}))
SpecE2E == InitE2E /\ [][Next]_vars

\* the statistics taken alone
StatValues == {<<45, 1>>, <<55, 1>>, <<7, 2>>, <<-3, 1>>}
\* 21 values, for which the rank (n - 1) * 0.95 is the integer 19
LongValues ==
    [i \in 1..21 |-> <<((i * 8) % 21) + 1, 1>>]

InitStats ==
    /\ files = <<>>
    /\ pc = "stats"
    /\ names = <<>>
    /\ name = <<>>
    /\ lines = <<>>
    /\ pos = 1
    /\ timestamps = <<>>
    /\ sample_blocks = <<>>
    /\ current = <<>>
    /\ node_stats = EmptyStats
    /\ block = 1
    /\ combined = EmptyMetrics
    /\ summary = [nodes |-> <<>>, warnings |-> <<>>]
    /\ values \in SeqsUpTo(StatValues, MaxValues) \cup {LongValues}
    /\ result = None

\* percentile(values, 95)
CallPercentile ==
    /\ pc = "stats"
    /\ result' = [fn |-> "percentile", out |-> percentile(values, 95)]
    /\ pc' = "done"
    /\ UNCHANGED <<files, names, name, lines, pos, timestamps, sample_blocks, current,
                   node_stats, block, combined, summary, values>>

\* summarize_metric(values)
CallSummarize ==
    /\ pc = "stats"
    /\ result' = [fn |-> "summarize_metric", out |-> summarize_metric(values)]
    /\ pc' = "done"
    /\ UNCHANGED <<files, names, name, lines, pos, timestamps, sample_blocks, current,
                   node_stats, block, combined, summary, values>>

NextStats == CallPercentile \/ CallSummarize
SpecStats == InitStats /\ [][NextStats]_vars

----------------------------------------------------------------------------
(* Reference statistics, stated by rank and not by sorting.                *)

\* the i-th smallest of V, counted with repetitions
Ranked(V, i) ==
    CHOOSE v \in Range(V) :
        /\ Cardinality({j \in DOMAIN V : RatLess(V[j], v)}) < i
        /\ i <= Cardinality({j \in DOMAIN V : RatLeq(V[j], v)})

\* the rule of the 95th percentile: rank k = (n - 1) * 0.95 on the ascending
\* values, ranks counted from 0
RefPercentile(V) ==
    LET k == Rat((Len(V) - 1) * 95, 100)
        f == Floor(k)
        c == Ceil(k)
    IN  IF f = c THEN Ranked(V, f + 1)
        ELSE RatAdd(RatMul(Ranked(V, f + 1), RatSub(RatInt(c), k)),
                    RatMul(Ranked(V, c + 1), RatSub(k, RatInt(f))))

RefMax(V) == CHOOSE v \in Range(V) : \A j \in DOMAIN V : RatLeq(V[j], v)

\* the number whose n-fold is the sum of V
RECURSIVE RefSum(_, _)
RefSum(V, n) == IF n = 0 THEN RatInt(0) ELSE RatAdd(RefSum(V, n - 1), V[n])
RefAvg(V) == Rat(RefSum(V, Len(V))[1], RefSum(V, Len(V))[2] * Len(V))

RefStats(V) == [avg |-> RefAvg(V), p95 |-> RefPercentile(V), max |-> RefMax(V)]

MinOf(set) == CHOOSE m \in set : \A x \in set : m <= x
MaxOf(set) == CHOOSE m \in set : \A x \in set : m >= x

----------------------------------------------------------------------------
(* C1: the end-to-end scenario of timestamp-marked blocks.                 *)

\* the blocks the file was written from
E2ECount == Len(files[NodeLog]) \div 2
E2EStamp(i) == (CHOOSE s \in Stamps : s.line = files[NodeLog][2 * i - 1]).t
E2EUse(i) == (CHOOSE u \in Uses : u.line = files[NodeLog][2 * i]).v
E2EStamps == {E2EStamp(i) : i \in 1..E2ECount}
E2EValues == [i \in 1..E2ECount |-> RatInt(E2EUse(i))]
E2EExample ==
    <<<<"t","s","=","1","0","0">>, <<"G","P","U","[","0","]",":"," ","G","P","U"," ","u","s","e"," ","(","%",")",":"," ","4","5">>, <<"t","s","=","2","0","0">>, <<"G","P","U","[","0","]",":"," ","G","P","U"," ","u","s","e"," ","(","%",")",":"," ","5","5">>>>

\* C1: for a file of N blocks, each a line ts=<t_i> and a line
\* GPU[0]: GPU use (%): <v_i>, the report has samples = N, start_ts the
\* least and end_ts the greatest t_i, and for device 0 the one record
\* gpu_util_pct computed over v_1..v_N; for (100,45),(200,55) it is
\* start_ts = 100, end_ts = 200, samples = 2, avg 50, p95 54.5, max 55.
C1_EndToEnd ==
    pc = "done" =>
        LET node == summary.nodes[<<"a">>]
        IN  /\ DOMAIN summary.nodes = {<<"a">>}
            /\ node.samples = E2ECount
            /\ node.start_ts = IF E2ECount = 0 THEN None ELSE <<MinOf(E2EStamps)>>
            /\ node.end_ts = IF E2ECount = 0 THEN None ELSE <<MaxOf(E2EStamps)>>
            /\ IF E2ECount = 0 THEN node.gpus = <<>>
               ELSE /\ DOMAIN node.gpus = {<<"0">>}
                    /\ DOMAIN node.gpus[<<"0">>] = {"gpu_util_pct"}
                    /\ node.gpus[<<"0">>]["gpu_util_pct"] = <<RefStats(E2EValues)>>
            /\ files[NodeLog] = E2EExample =>
                   /\ node.start_ts = <<100>> /\ node.end_ts = <<200>>
                   /\ node.samples = 2
                   /\ node.gpus[<<"0">>]["gpu_util_pct"] =
                          <<[avg |-> <<50, 1>>, p95 |-> <<109, 2>>, max |-> <<55, 1>>]>>

\* the two-block example has been summarised
C1_Witness ==
    /\ pc = "done"
    /\ files[NodeLog] = E2EExample
    /\ summary.nodes[<<"a">>].samples = 2

----------------------------------------------------------------------------
(* C5: the percentile against the rank rule.                               *)

\* C5: for every non-empty V, percentile(V, 95) is the value the rank rule
\* gives on the ascending values, and summarize_metric of a one-element V
\* has that element as avg, p95 and max.
C5_PercentileRule ==
    (pc = "done" /\ values # <<>>) =>
        /\ result.fn = "percentile" => result.out = RefPercentile(values)
        /\ result.fn = "summarize_metric" =>
               /\ result.out = <<RefStats(values)>>
               /\ Len(values) = 1 =>
                      result.out = <<[avg |-> values[1], p95 |-> values[1],
                                      max |-> values[1]]>>

\* the percentile of unsorted values of even length has been taken, between
\* two different ranks
C5_Witness ==
    /\ pc = "done"
    /\ result.fn = "percentile"
    /\ Len(values) = 4
    /\ RatLess(values[4], values[1])
    /\ result.out # Ranked(values, 4)
    /\ result.out # Ranked(values, 3)

----------------------------------------------------------------------------
(* C8, C9: the segmenter.                                                  *)

IsSeparator(line) == Strip(line) = Separator
IsMarker(line) == StartsWith(line, TsPrefix)

\* the indices of the lines that are no separators, in order
KeptIndices == SelectSeq([i \in 1..Len(lines) |-> i], LAMBDA i : ~IsSeparator(lines[i]))

\* the indices at which a block has to start: a marker, or a kept line with
\* nothing or a separator before it
BlockStarts ==
    {i \in 1..Len(lines) :
        /\ ~IsSeparator(lines[i])
        /\ IsMarker(lines[i]) \/ i = 1 \/ IsSeparator(lines[i - 1])}

RECURSIVE Flatten(_)
Flatten(blocks) == IF blocks = <<>> THEN <<>> ELSE Head(blocks) \o Flatten(Tail(blocks))

\* the index in lines of the first line of block b
FirstIndex(b) == KeptIndices[Len(Flatten(SubSeq(sample_blocks, 1, b - 1))) + 1]

\* C8: the blocks partition the lines that are no separators, in input
\* order; a marker line is the first line of its block; a separator is in
\* no block and ends the current one; no block is empty; samples counts
\* the blocks.
C8_BlocksPartitionLines ==
    pc = "parse" =>
        /\ Flatten(sample_blocks) = [k \in 1..Len(KeptIndices) |-> lines[KeptIndices[k]]]
        /\ \A b \in 1..Len(sample_blocks) :
               /\ sample_blocks[b] # <<>>
               /\ \A j \in 2..Len(sample_blocks[b]) : ~IsMarker(sample_blocks[b][j])
        /\ {FirstIndex(b) : b \in 1..Len(sample_blocks)} = BlockStarts
        /\ Len(sample_blocks) = Cardinality(BlockStarts)
        /\ node_stats.samples = Len(sample_blocks)

\* a file with two separators in a row and a separator directly before a
\* marker has been segmented into two blocks
C8_Witness ==
    /\ pc = "parse"
    /\ lines = <<<<"x">>, <<"-","-","-">>, <<" ","-","-","-"," ">>, <<"t","s","=","1","0","0">>>>
    /\ Len(sample_blocks) = 2

\* the timestamps of the markers whose text after "=" is an integer
ParsedStamps == {s.t : s \in {x \in SegStamps : x.line \in Range(lines)}}

\* C9: start_ts and end_ts are the least and the greatest timestamp of the
\* markers that parse, in whatever order; a marker that does not parse
\* still starts a block; both are null exactly when no marker parsed.
C9_TimestampSpan ==
    pc = "parse" =>
        /\ node_stats.start_ts =
               IF ParsedStamps = {} THEN None ELSE <<MinOf(ParsedStamps)>>
        /\ node_stats.end_ts =
               IF ParsedStamps = {} THEN None ELSE <<MaxOf(ParsedStamps)>>
        /\ (node_stats.start_ts = None) <=> (node_stats.end_ts = None)
        /\ Cardinality({b \in 1..Len(sample_blocks) : sample_blocks[b][1] = BadStamp}) =
               Cardinality({i \in 1..Len(lines) : lines[i] = BadStamp})

\* markers out of order around a marker that does not parse
C9_Witness ==
    /\ pc = "parse"
    /\ lines = <<<<"t","s","=","1","0","0">>, BadStamp, <<"t","s","="," ","5","0">>>>
    /\ node_stats.start_ts = <<50>>
    /\ node_stats.end_ts = <<100>>
    /\ Len(sample_blocks) = 3

----------------------------------------------------------------------------
(* C2: the warning of a file without metrics.                              *)

RECURSIVE Count(_, _)
Count(seq, x) ==
    IF seq = <<>> THEN 0 ELSE (IF Head(seq) = x THEN 1 ELSE 0) + Count(Tail(seq), x)

\* C2: the step that ends a file puts the file's entry under its node name
\* and appends the one warning naming the file exactly when the entry's
\* gpus are empty, which is exactly when no block gave a value; a file
\* without a header line and without a key/value line has empty gpus; no
\* warning is ever repeated.
C2_WarningIffNoGpus ==
    /\ [](\A i \in 1..Len(summary.warnings) :
              Count(summary.warnings, summary.warnings[i]) = 1)
    /\ [][(pc = "parse" /\ pc' = "files") =>
              LET node == splitext_root(name)
                  entry == summary'.nodes[node]
                  extracted == \E b \in 1..Len(sample_blocks) :
                                   parse_sample(sample_blocks[b]) # EmptyMetrics
                  recognizable == \E i \in 1..Len(lines) :
                                      \/ IsHeaderLine(lines[i])
                                      \/ KVMatch(Strip(lines[i])) # None
              IN  /\ node \in DOMAIN summary'.nodes
                  /\ entry.log_file = name
                  /\ entry.samples = Len(sample_blocks)
                  /\ (entry.gpus = <<>>) <=> ~extracted
                  /\ ~recognizable => entry.gpus = <<>>
                  /\ summary'.warnings =
                         IF entry.gpus = <<>>
                         THEN Append(summary.warnings, WarningPrefix \o name)
                         ELSE summary.warnings
                  /\ \A n \in DOMAIN summary.nodes \ {node} :
                         summary'.nodes[n] = summary.nodes[n]]_vars

\* two files have been summarised: one with blocks but no value, warned of,
\* and one with values
C2_Witness ==
    /\ pc = "done"
    /\ files = (<<"a",".","l","o","g">> :> <<TsLine, TempLineNA>>) @@ (<<"b",".","l","o","g">> :> <<UseLine45>>)
    /\ summary.warnings = <<WarningPrefix \o <<"a",".","l","o","g">>>>
    /\ summary.nodes[<<"a">>].gpus = <<>>
    /\ summary.nodes[<<"b">>].gpus # <<>>

----------------------------------------------------------------------------
(* C3: the columns of a table.                                             *)

\* every header with its normalized tokens, every line after it with its
\* tokens and the number each token parses to
HeaderTokens ==
    { [line |-> <<"G","P","U"," "," ","G","P","U","%"," "," ","V","R","A","M","%"," "," ","T","E","M","P"," "," ","A","v","g","P","w","r"," "," ","S","C","L","K"," "," ","M","C","L","K">>,
       cols |-> <<<<"g","p","u">>, <<"g","p","u","%">>, <<"v","r","a","m","%">>, <<"t","e","m","p">>, <<"a","v","g","p","w","r">>, <<"s","c","l","k">>,
                  <<"m","c","l","k">>>>],
      [line |-> <<"G","P","U"," "," ","T","e","m","p"," "," ","p","w","r"," "," ","P","o","w","e","r"," "," ","G","P","U","u","s","e","%">>,
       cols |-> <<<<"g","p","u">>, <<"t","e","m","p">>, <<"p","w","r">>, <<"p","o","w","e","r">>, <<"g","p","u","u","s","e","%">>>>],
      [line |-> <<"M","e","m","%"," "," ","G","P","U"," "," ","(","M","C","L","K",")"," "," ","T","e","m","p","e","r","a","t","u","r","e">>,
       cols |-> <<<<"m","e","m","%">>, <<"g","p","u">>, <<"m","c","l","k">>, <<"t","e","m","p","e","r","a","t","u","r","e">>>>],
      [line |-> <<"G","P","U","%"," "," ","V","R","A","M","%">>, cols |-> <<<<"g","p","u","%">>, <<"v","r","a","m","%">>>>] }
RowTokens ==
    { [line |-> <<"0"," "," ","8","0"," "," ","6","0"," "," ","7","0"," "," ","1","5","0"," "," ","1","5","0","0"," "," ","9","0","0">>, data |-> TRUE,
       tokens |-> <<<<"0">>, <<"8","0">>, <<"6","0">>, <<"7","0">>, <<"1","5","0">>, <<"1","5","0","0">>, <<"9","0","0">>>>,
       nums |-> <<<<0, 1>>, <<80, 1>>, <<60, 1>>, <<70, 1>>, <<150, 1>>, <<1500, 1>>,
                  <<900, 1>>>>],
      [line |-> <<"1"," "," ","N","/","A"," "," ","5","5",".","5">>, data |-> TRUE,
       tokens |-> <<<<"1">>, <<"N","/","A">>, <<"5","5",".","5">>>>,
       nums |-> <<<<1, 1>>, None, <<111, 2>>>>],
      [line |-> <<"0"," "," ","4","0"," "," ","-","5"," "," ","x","9"," "," ","7">>, data |-> TRUE,
       tokens |-> <<<<"0">>, <<"4","0">>, <<"-","5">>, <<"x","9">>, <<"7">>>>,
       nums |-> <<<<0, 1>>, <<40, 1>>, <<-5, 1>>, <<9, 1>>, <<7, 1>>>>],
      [line |-> <<"7">>, data |-> TRUE, tokens |-> <<<<"7">>>>, nums |-> <<<<7, 1>>>>],
      [line |-> <<"n","/","a"," "," ","1"," "," ","2">>, data |-> FALSE,
       tokens |-> <<<<"n","/","a">>, <<"1">>, <<"2">>>>,
       nums |-> <<None, <<1, 1>>, <<2, 1>>>>] }

TheHeader == CHOOSE h \in HeaderTokens : h.line = lines[1]
\* the data rows of the table, in order
TheRows ==
    SelectSeq([i \in 1..(Len(lines) - 1) |->
                  CHOOSE r \in RowTokens : r.line = lines[i + 1]],
              LAMBDA r : r.data)

\* the index in cols of the first of aliases that occurs in cols, 0 if
\* none does
RefColumn(cols, aliases) ==
    LET present == {i \in 1..Len(aliases) : aliases[i] \in Range(cols)}
        alias == aliases[MinOf(present)]
    IN  IF present = {} THEN 0 ELSE MinOf({t \in 1..Len(cols) : cols[t] = alias})

\* the values the rows give device d in the logical column c
RefColumnValues(d, c) ==
    LET gpu == RefColumn(TheHeader.cols, GpuAliases)
        col == RefColumn(TheHeader.cols, TableColumns[c].names)
        rows == SelectSeq(TheRows,
                          LAMBDA r : /\ gpu # 0 /\ gpu <= Len(r.tokens)
                                     /\ r.tokens[gpu] = d
                                     /\ col # 0 /\ col <= Len(r.tokens)
                                     /\ r.nums[col] # None)
    IN  [i \in 1..Len(rows) |-> rows[i].nums[col]]

TableDevices == UNION {Range(r.tokens) : r \in RowTokens}
TableExample ==
    <<<<"G","P","U"," "," ","G","P","U","%"," "," ","V","R","A","M","%"," "," ","T","E","M","P"," "," ","A","v","g","P","w","r"," "," ","S","C","L","K"," "," ","M","C","L","K">>, <<"0"," "," ","8","0"," "," ","6","0"," "," ","7","0"," "," ","1","5","0"," "," ","1","5","0","0"," "," ","9","0","0">>>>

\* C3: every logical column is read at the index of the first alias of its
\* list that the normalized header holds; every data row gives its device
\* one value for each resolved column that is within the row and parses;
\* nothing else is extracted and nothing fails; the example table gives
\* device 0 the six values 80, 60, 70, 150, 1500, 900.
C3_TableColumns ==
    (pc = "parse" /\ block > Len(sample_blocks)) =>
        /\ \A d \in TableDevices : \A c \in 1..Len(TableColumns) :
               Get(combined, d, TableColumns[c].key) = RefColumnValues(d, c)
        /\ DOMAIN combined \subseteq TableDevices
        /\ \A d \in DOMAIN combined :
               /\ DOMAIN combined[d] # {}
               /\ DOMAIN combined[d] \subseteq
                      {TableColumns[c].key : c \in 1..Len(TableColumns)}
               /\ \A k \in DOMAIN combined[d] : combined[d][k] # <<>>
        /\ lines = TableExample =>
               combined = (<<"0">> :> [gpu_util_pct |-> <<<<80, 1>>>>,
                                      vram_util_pct |-> <<<<60, 1>>>>,
                                      temp_c |-> <<<<70, 1>>>>,
                                      power_w |-> <<<<150, 1>>>>,
                                      sclk_mhz |-> <<<<1500, 1>>>>,
                                      mclk_mhz |-> <<<<900, 1>>>>])

\* a header holding two aliases of the power column, the later alias of the
\* list first, has been read with a row that reaches both
C3_Witness ==
    /\ pc = "parse" /\ block > Len(sample_blocks)
    /\ lines = <<<<"G","P","U"," "," ","T","e","m","p"," "," ","p","w","r"," "," ","P","o","w","e","r"," "," ","G","P","U","u","s","e","%">>, <<"0"," "," ","4","0"," "," ","-","5"," "," ","x","9"," "," ","7">>,
                 <<"1"," "," ","N","/","A"," "," ","5","5",".","5">>>>
    /\ Get(combined, <<"0">>, "power_w") = <<<<9, 1>>>>
    /\ Get(combined, <<"1">>, "temp_c") = <<>>

----------------------------------------------------------------------------
(* C4: the accumulation over the blocks of a file.                         *)

\* the values of device d and key k in the first n blocks, block by block
RECURSIVE BlockValues(_, _, _)
BlockValues(d, k, n) ==
    IF n = 0 THEN <<>>
    ELSE BlockValues(d, k, n - 1) \o Get(parse_sample(sample_blocks[n]), d, k)

\* the devices and the keys of the file
AllDevices ==
    DOMAIN combined
        \cup UNION {DOMAIN parse_sample(sample_blocks[b]) : b \in 1..Len(sample_blocks)}
AllKeys(d) ==
    Keys(combined, d)
        \cup UNION {Keys(parse_sample(sample_blocks[b]), d) : b \in 1..Len(sample_blocks)}

\* C4: while a file is aggregated, for every device and key the accumulated
\* sequence is the concatenation, in block order, of what parse_sample gave
\* for each block done: as long as their sum, earlier blocks first, equal
\* values kept.
C4_BlockOrderConcatenation ==
    pc = "parse" =>
        \A d \in AllDevices : \A k \in AllKeys(d) :
            Get(combined, d, k) = BlockValues(d, k, block - 1)

\* two blocks have given device 0 the same reading twice and another one
\* between
C4_Witness ==
    /\ pc = "parse"
    /\ block = 3
    /\ Len(sample_blocks[1]) = 2
    /\ Get(combined, <<"0">>, "gpu_util_pct") = <<<<45, 1>>, <<111, 2>>, <<45, 1>>>>

----------------------------------------------------------------------------
(* C6: the temperature labels.                                             *)

\* the rules of the temperature labels, in order
TempRules ==
    << [pat |-> <<"s","e","n","s","o","r"," ","e","d","g","e">>, key |-> "temp_edge_c"],
       [pat |-> <<"s","e","n","s","o","r"," ","j","u","n","c","t","i","o","n">>, key |-> "temp_junction_c"],
       [pat |-> <<"s","e","n","s","o","r"," ","m","e","m","o","r","y">>, key |-> "temp_memory_c"],
       [pat |-> <<"s","e","n","s","o","r"," ","h","b","m"," ","0">>, key |-> "temp_hbm0_c"],
       [pat |-> <<"s","e","n","s","o","r"," ","h","b","m"," ","1">>, key |-> "temp_hbm1_c"],
       [pat |-> <<"s","e","n","s","o","r"," ","h","b","m"," ","2">>, key |-> "temp_hbm2_c"],
       [pat |-> <<"s","e","n","s","o","r"," ","h","b","m"," ","3">>, key |-> "temp_hbm3_c"],
       [pat |-> <<"t","e","m","p","e","r","a","t","u","r","e">>, key |-> "temp_c"] >>
TempKeys == {TempRules[i].key : i \in 1..Len(TempRules)}

\* the key of the first rule the label matches, "" if it matches none
RefTempKey(label) ==
    LET hits == {i \in 1..Len(TempRules) : Contains(Lower(label), TempRules[i].pat)}
    IN  IF hits = {} THEN "" ELSE TempRules[MinOf(hits)].key

\* the labels the exact-match and the clock-prefix rules take
OtherRule(label) ==
    \/ label \in {<<"G","P","U"," ","u","s","e"," ","(","%",")">>, <<"G","P","U"," ","M","e","m","o","r","y"," ","A","l","l","o","c","a","t","e","d"," ","(","V","R","A","M","%",")">>,
                  <<"G","P","U"," ","M","e","m","o","r","y"," ","R","e","a","d","/","W","r","i","t","e"," ","A","c","t","i","v","i","t","y"," ","(","%",")">>,
                  <<"A","v","e","r","a","g","e"," ","G","r","a","p","h","i","c","s"," ","P","a","c","k","a","g","e"," ","P","o","w","e","r"," ","(","W",")">>}
    \/ \E p \in {<<"f","c","l","k"," ","c","l","o","c","k"," ","l","e","v","e","l">>, <<"m","c","l","k"," ","c","l","o","c","k"," ","l","e","v","e","l">>, <<"s","c","l","k"," ","c","l","o","c","k"," ","l","e","v","e","l">>,
                 <<"s","o","c","c","l","k"," ","c","l","o","c","k"," ","l","e","v","e","l">>} : StartsWith(label, p)

\* the key/value lines the file was written from
TheKVs == [i \in 1..Len(lines) |-> CHOOSE kv \in KVPool : KVText(kv) = lines[i]]

\* the values the lines give device d under the temperature key k
RefTempValues(d, k) ==
    LET kvs == SelectSeq(TheKVs,
                         LAMBDA kv : /\ kv.gpu = d
                                     /\ ~OtherRule(kv.label)
                                     /\ RefTempKey(kv.label) = k
                                     /\ kv.val # None)
    IN  [i \in 1..Len(kvs) |-> kvs[i].val]

KVLineOf(label, text) == <<<<"G","P","U","[","0","]",":"," ">> \o label \o <<":"," ">> \o text>>

\* C6: a label that no exact-match or clock-prefix rule takes goes to the
\* key of the first rule it matches in the order edge, junction, memory,
\* hbm 0..3, generic temperature; its line gives at most one value, to that
\* key only; a label matching no rule gives nothing.
C6_TemperatureRules ==
    (pc = "parse" /\ block > Len(sample_blocks)) =>
        /\ \A d \in {<<"0">>, <<"1">>} : \A k \in TempKeys :
               Get(combined, d, k) = RefTempValues(d, k)
        /\ \A d \in DOMAIN combined : \A k \in DOMAIN combined[d] \cap TempKeys :
               combined[d][k] # <<>>
        /\ \A d \in DOMAIN combined : \A k \in DOMAIN combined[d] \ TempKeys :
               \E i \in 1..Len(lines) : OtherRule(TheKVs[i].label)
        /\ lines = KVLineOf(<<"T","e","m","p","e","r","a","t","u","r","e"," ","S","e","n","s","o","r"," ","E","d","g","e">>, <<"4","1">>) =>
               combined = (<<"0">> :> [temp_edge_c |-> <<<<41, 1>>>>])
        /\ lines = KVLineOf(<<"T","e","m","p","e","r","a","t","u","r","e"," ","S","e","n","s","o","r"," ","J","u","n","c","t","i","o","n">>, <<"5","2",".","5">>) =>
               combined = (<<"0">> :> [temp_junction_c |-> <<<<105, 2>>>>])
        /\ lines = KVLineOf(<<"T","e","m","p","e","r","a","t","u","r","e">>, <<"3","3">>) =>
               combined = (<<"0">> :> [temp_c |-> <<<<33, 1>>>>])
        /\ lines = KVLineOf(<<"F","a","n"," ","s","p","e","e","d"," ","(","%",")">>, <<"3","0">>) => combined = EmptyMetrics

\* a label naming two sensors, the later rule's first, has been read beside
\* a generic temperature line
C6_Witness ==
    /\ pc = "parse" /\ block > Len(sample_blocks)
    /\ lines = KVLineOf(<<"S","e","n","s","o","r"," ","J","u","n","c","t","i","o","n"," ","b","y"," ","S","e","n","s","o","r"," ","E","d","g","e">>, <<"9">>)
                   \o KVLineOf(<<"T","e","m","p","e","r","a","t","u","r","e">>, <<"3","3">>)
    /\ combined = (<<"0">> :> [temp_edge_c |-> <<<<9, 1>>>>, temp_c |-> <<<<33, 1>>>>])

----------------------------------------------------------------------------
(* C7: a block holding a table and key/value lines.                        *)

IsKVLine(line) == KVMatch(Strip(line)) # None
\* what the table extractor gives for the block without its key/value lines,
\* and what the key/value extractor gives for those lines alone
TableAlone(b) ==
    TableMetrics(EmptyMetrics,
                 extract_tables(SelectSeq(b, LAMBDA l : ~IsKVLine(l))), 1)
KVAlone(b) == parse_kv_lines(SelectSeq(b, IsKVLine))
HasBoth(b) == TableAlone(b) # EmptyMetrics /\ KVAlone(b) # EmptyMetrics

\* the values of device d and key k the first n blocks should give: each
\* block's table values, then its key/value values
RECURSIVE BothValues(_, _, _)
BothValues(d, k, n) ==
    IF n = 0 THEN <<>>
    ELSE BothValues(d, k, n - 1) \o Get(TableAlone(sample_blocks[n]), d, k)
                                 \o Get(KVAlone(sample_blocks[n]), d, k)

\* C7: when every block done holds a table and key/value lines, in any
\* order, every device and key has, block by block, the table's values and
\* then the key/value lines' values, none lost to the other kind of line.
C7_NoValueLost ==
    (pc = "parse" /\ \A b \in 1..(block - 1) : HasBoth(sample_blocks[b])) =>
        \A d \in {<<"0">>} : \A k \in {"gpu_util_pct", "temp_c"} :
            Get(combined, d, k) = BothValues(d, k, block - 1)

----------------------------------------------------------------------------
(* C10: only parsed numbers are aggregated.                                *)

\* the numbers written in the lines of the pool
MixNumbers == {<<0, 1>>, <<80, 1>>, <<45, 1>>, <<111, 2>>}

IsStatRecord(s) ==
    /\ s # None
    /\ DOMAIN s[1] = {"avg", "p95", "max"}
    /\ IsRat(s[1].avg) /\ IsRat(s[1].p95) /\ IsRat(s[1].max)

\* C10: every device of the accumulator and of every report entry has a
\* key; every key of the accumulator has a non-empty sequence of numbers
\* that were parsed from the lines; every key of an entry has a record of
\* three numbers.
C10_OnlyParsedValues ==
    /\ \A d \in DOMAIN combined :
           /\ DOMAIN combined[d] # {}
           /\ \A k \in DOMAIN combined[d] :
                  /\ combined[d][k] # <<>>
                  /\ \A i \in 1..Len(combined[d][k]) :
                         /\ IsRat(combined[d][k][i])
                         /\ combined[d][k][i] \in MixNumbers
    /\ \A n \in DOMAIN summary.nodes : \A d \in DOMAIN summary.nodes[n].gpus :
           /\ DOMAIN summary.nodes[n].gpus[d] # {}
           /\ \A k \in DOMAIN summary.nodes[n].gpus[d] :
                  IsStatRecord(summary.nodes[n].gpus[d][k])

\* a file whose table row and key/value line both hold a text that is no
\* number has been summarised with the one value that parsed
C10_Witness ==
    /\ pc = "done"
    /\ files[NodeLog] = <<HeaderLine, RowLine, TempLineNA>>
    /\ DOMAIN summary.nodes[<<"a">>].gpus[<<"0">>] = {"gpu_util_pct"}

====
